---- MODULE Spec2Model ----
(***************************************************************************)
(* Secret-change detection of the Azure DevOps Terraform provider:         *)
(* tfhelper.DiffFuncSupressSecretChanged and tfhelper.HelpFlattenSecret,   *)
(* the two callbacks that keep a bcrypt memo of a write-only secret in     *)
(* the `<key>_hash` attribute of the resource state, on top of             *)
(* secretmemo.IsUpdating.                                                  *)
(*                                                                         *)
(* Strings are modelled as records [tag, body, salt]:                      *)
(*   tag = "raw"    an ordinary string with text `body` (salt 0); the      *)
(*                  empty string is Raw("");                               *)
(*   tag = "bcrypt" the bcrypt encoding of secret text `body` under        *)
(*                  salt `salt`.                                           *)
(* A bcrypt string is one-way: it is a different string from Raw(body).    *)
(***************************************************************************)
EXTENDS Naturals, Sequences, FiniteSets, TLC

VARIABLES state, config, applied, last, before, log

vars == <<state, config, applied, last, before, log>>

\* ------------------------------------------------------------------ bounds

\* Number of distinct salts the random source can draw.
MaxSalt == 2

Salts == 1..MaxSalt

\* ----------------------------------------------------------------- strings

Raw(b) == [tag |-> "raw", body |-> b, salt |-> 0]

EmptyStr == Raw("")

\* Texts a caller may declare for a secret attribute ("" clears the secret).
SecretTexts == {"", "a", "b"}

SecretValues == {Raw(b) : b \in SecretTexts}

\* A stored memo that is no bcrypt encoding (corrupted or foreign state).
JunkMemo == Raw("not-a-valid-digest")

\* ------------------------------------------------------------ the resource

\* Attributes of the resource that carry a secret.
SecretKeys == {"pat", "token"}

\* Schema of the resource: the secret attributes, their memo attributes as
\* registered by GenerateSecreteMemoSchema, and one unrelated attribute.
Keys == {"pat", "pat_hash", "token", "token_hash", "name"}

calcSecretHashKey(secretKey) == secretKey \o "_hash"

\* d.Get(key): the planned (declared) value of a configurable attribute, the
\* stored value of every other (computed) attribute.
Get(key) == IF key \in SecretKeys THEN config[key] ELSE state[key]

\* d.HasChange(key): stored and planned value differ.
HasChange(key) == state[key] # Get(key)

\* ---------------------------------------------------------------- secretmemo

\* What the platform decides in one call: the salt the random source yields,
\* whether the hashing primitive fails, and the boolean a failing call
\* returns next to its error.
\* (The salt is read only by a call that succeeds, the boolean only by one
\* that fails.)
Envs ==
    {[salt |-> s, fail |-> FALSE, errBool |-> FALSE] : s \in Salts}
    \cup {[salt |-> 1, fail |-> TRUE, errBool |-> b] : b \in BOOLEAN}

\* SecretMemo.hash: salted one-way digest of a secret value.
hash(value, salt) == [tag |-> "bcrypt", body |-> value.body, salt |-> salt]

\* A non-empty stored memo that does not decode as a digest.
Malformed(digest) == digest.tag # "bcrypt" /\ digest # EmptyStr

\* SecretMemo.verify: the candidate hashes to the digest under the digest's
\* own salt.
verify(candidate, digest) ==
    /\ digest.tag = "bcrypt"
    /\ digest = hash(candidate, digest.salt)

\* Steps 1, 2 (mismatch, malformed) and 3 of ChangeGate.evaluate: a new
\* digest is computed; a failing primitive yields the error and no digest.
rehash(candidate, env) ==
    IF env.fail
    THEN [isUpdating |-> env.errBool, newMemo |-> EmptyStr, err |-> TRUE]
    ELSE [isUpdating |-> TRUE, newMemo |-> hash(candidate, env.salt),
          err |-> FALSE]

\* secretmemo.IsUpdating(new, memo) = ChangeGate.evaluate: (isUpdating,
\* newMemo, err).
IsUpdating(candidate, storedDigest, env) ==
    IF storedDigest = EmptyStr THEN rehash(candidate, env)
    ELSE IF Malformed(storedDigest) THEN rehash(candidate, env)
    ELSE IF verify(candidate, storedDigest)
         THEN [isUpdating |-> FALSE, newMemo |-> storedDigest, err |-> FALSE]
         ELSE rehash(candidate, env)

\* ------------------------------------------------------------- call records

NoResult == [isUpdating |-> FALSE, newMemo |-> EmptyStr, err |-> FALSE]

\* The most recent call: the operation, the secret attribute it was called
\* for, the memo attribute it used, whether it called IsUpdating, whether the
\* hashing primitive failed in that call, what IsUpdating returned and what
\* the call itself returned.
Call(op, k, key, called, fail, res, ret) ==
    [op |-> op, k |-> k, key |-> key, called |-> called, fail |-> fail,
     res |-> res, ret |-> ret]

NoCall(op, k) == Call(op, k, k, FALSE, FALSE, NoResult, FALSE)

\* What a caller keeps of IsUpdating's result: the diff function discards the
\* new memo (`isUpdating, _, err`), HelpFlattenSecret the boolean
\* (`_, newHash, err`).
KeptByDiff(res) == [res EXCEPT !.newMemo = EmptyStr]

KeptByFlatten(res) == [res EXCEPT !.isUpdating = FALSE]

\* Whether the hashing primitive was invoked and failed.
Failed(res, env) == res.err /\ env.fail

\* One log.Printf: the call site, the attribute names and the string values
\* formatted into the line.
LogLine(site, keys, vals) == [site |-> site, keys |-> keys, vals |-> vals]

\* ------------------------------------------------ DiffFuncSupressSecretChanged

\* memoKey := calcSecretHashKey(k)  (variant: the memo read under k itself)
DiffMemoKeyUnsuffixed(k) == k

DiffMemoKey(k) == calcSecretHashKey(k)

\* The value returned for the result of IsUpdating  (variants: the error
\* check dropped; the negation of isUpdating dropped).
DiffDecisionIgnoringErr(res) == ~res.isUpdating

DiffDecisionNotNegated(res) == IF res.err THEN FALSE ELSE res.isUpdating

DiffDecision(res) == IF res.err THEN FALSE ELSE ~res.isUpdating

\* The lines logged by one call.
DiffLog(k, old, new, memoKey, memoValue, res) ==
    IF res.err
    THEN << LogLine("diff:swallow-err", <<>>, <<>>) >>
    ELSE << LogLine("diff:values", <<k, memoKey>>, <<old, new, memoValue>>) >>

\* The framework calls the function with the stored and the planned value of
\* attribute k.
DiffFuncSupressSecretChanged(k, env) ==
    LET old == state[k]
        new == config[k]
        memoKey == DiffMemoKey(k)
        memoValue == Get(memoKey)
        res == IsUpdating(new, memoValue, env)
    IN  /\ last' = Call("diff", k, memoKey, TRUE, Failed(res, env),
                        KeptByDiff(res), DiffDecision(res))
        /\ log' = DiffLog(k, old, new, memoKey, memoValue, res)
        /\ before' = state
        /\ UNCHANGED <<state, config, applied>>

\* ----------------------------------------------------------- HelpFlattenSecret

\* hashKey := calcSecretHashKey(secretKey)  (variant: the secret attribute
\* itself)
FlattenHashKeyUnsuffixed(secretKey) == secretKey

FlattenHashKey(secretKey) == calcSecretHashKey(secretKey)

\* The value handed to d.Set(hashKey, ...)  (variants: the secret itself; a
\* memo once set is never replaced; a rehash on every call).
FlattenValueSecret(newSecret, oldHash, res) == newSecret

FlattenValueFirstOnly(newSecret, oldHash, res) ==
    IF oldHash = EmptyStr THEN res.newMemo ELSE oldHash

FlattenValueRehashed(newSecret, oldHash, res) ==
    IF res.err THEN res.newMemo
    ELSE hash(newSecret, (oldHash.salt % MaxSalt) + 1)

FlattenValue(newSecret, oldHash, res) == res.newMemo

\* The guard of the early return  (variant: no early return).
FlattenGuardAlways(secretKey) == TRUE

FlattenGuard(secretKey) == HasChange(secretKey)

FlattenLog(secretKey, hashKey, res) ==
    (IF res.err THEN << LogLine("flatten:swallow-err", <<>>, <<>>) >>
     ELSE << >>)
    \o << LogLine("flatten:updated", <<secretKey, hashKey>>, <<res.newMemo>>) >>

HelpFlattenSecretNoChange(secretKey) ==
    /\ ~FlattenGuard(secretKey)
    /\ last' = NoCall("flatten", secretKey)
    /\ log' = << LogLine("flatten:not-updated", <<secretKey>>, <<>>) >>
    /\ before' = state
    /\ UNCHANGED <<state, config, applied>>

HelpFlattenSecretChange(secretKey, env) ==
    /\ FlattenGuard(secretKey)
    /\ LET hashKey == FlattenHashKey(secretKey)
           newSecret == Get(secretKey)
           oldHash == Get(hashKey)
           res == IsUpdating(newSecret, oldHash, env)
       IN  /\ state' = [state EXCEPT
                          ![hashKey] = FlattenValue(newSecret, oldHash, res)]
           /\ applied' = IF res.err THEN applied
                         ELSE [applied EXCEPT ![secretKey] = newSecret]
           /\ last' = Call("flatten", secretKey, hashKey, TRUE,
                           Failed(res, env), KeptByFlatten(res), FALSE)
           /\ log' = FlattenLog(secretKey, hashKey, res)
           /\ before' = state
           /\ UNCHANGED config

HelpFlattenSecret(secretKey, env) ==
    \/ HelpFlattenSecretNoChange(secretKey)
    \/ HelpFlattenSecretChange(secretKey, env)

\* ------------------------------------------------------------- the reconciler

\* The caller declares a new value for a secret attribute.
Declare(k, v) ==
    /\ config[k] # v
    /\ config' = [config EXCEPT ![k] = v]
    /\ last' = NoCall("declare", k)
    /\ log' = << >>
    /\ before' = state
    /\ UNCHANGED <<state, applied>>

\* The reconciler records the applied value of a secret attribute.
StoreAttribute(k) ==
    /\ state[k] # config[k]
    /\ state' = [state EXCEPT ![k] = config[k]]
    /\ last' = NoCall("store", k)
    /\ log' = << >>
    /\ before' = state
    /\ UNCHANGED <<config, applied>>

\* ------------------------------------------------------------ specification

\* A memo attribute starts unset, or holds what a corrupted or foreign state
\* file left in it.
InitMemos == {EmptyStr, JunkMemo}

\* No candidate has been hashed into a memo yet.
NoSecret == Raw("<none>")

Init ==
    /\ \E m \in [SecretKeys -> InitMemos] :
          state = [key \in Keys |->
                     IF key \in SecretKeys THEN EmptyStr
                     ELSE IF key = "name" THEN Raw("n")
                     ELSE IF key = "pat_hash" THEN m["pat"] ELSE m["token"]]
    /\ config \in [SecretKeys -> SecretValues]
    /\ applied = [k \in SecretKeys |-> NoSecret]
    /\ last = NoCall("none", "pat")
    /\ before = state
    /\ log = << >>

Next ==
    \/ \E k \in SecretKeys, env \in Envs : DiffFuncSupressSecretChanged(k, env)
    \/ \E k \in SecretKeys, env \in Envs : HelpFlattenSecret(k, env)
    \/ \E k \in SecretKeys, v \in SecretValues : Declare(k, v)
    \/ \E k \in SecretKeys : StoreAttribute(k)

Spec == Init /\ [][Next]_vars

\* ------------------------------------------------------------------ claims

\* The `<key>_hash` field of secret attribute k, as the schema names it.
HashField(k) == IF k = "pat" THEN "pat_hash" ELSE "token_hash"

\* D was produced by hashing v (under some salt).
IsDigestOf(D, v) == D.tag = "bcrypt" /\ D.body = v.body

\* The inputs of the most recent call: the candidate it was given, the digest
\* that was stored under `<key>_hash` when it was called, and whether the
\* secret attribute had a pending change.
Candidate == config[last.k]

Stored == before[HashField(last.k)]

Persisted == state[HashField(last.k)]

Pending == before[last.k] # config[last.k]

DiffCalled == last.op = "diff"

FlattenCalled == last.op = "flatten"

\* C1: a candidate evaluated against a digest produced by hashing that same
\* candidate is reported unchanged (the diff function returns true) and the
\* digest is kept as it is, without a rehash: after HelpFlattenSecret the
\* `<key>_hash` field still equals the stored digest.
C1_SameSecretSuppressedNoRehash ==
    IsDigestOf(Stored, Candidate) =>
        /\ DiffCalled => last.ret /\ ~last.res.err
        /\ FlattenCalled => Persisted = Stored /\ ~last.res.err

C1_Witness ==
    /\ DiffCalled
    /\ IsDigestOf(Stored, Candidate)
    /\ last.ret

\* C2: a candidate evaluated against a digest produced by hashing a different
\* secret is reported changed (the diff function returns false), and the
\* digest then persisted verifies against the candidate and against no other
\* secret, in particular not the one the stored digest was made from.
C2_RotationReported ==
    (Stored.tag = "bcrypt" /\ ~IsDigestOf(Stored, Candidate)) =>
        /\ DiffCalled => ~last.ret
        /\ (FlattenCalled /\ Pending /\ ~last.fail) =>
              /\ verify(Candidate, Persisted)
              /\ \A v1 \in SecretValues \ {Candidate} :
                    ~verify(v1, Persisted)
              /\ ~IsDigestOf(Persisted, [body |-> Stored.body])

C2_Witness ==
    /\ FlattenCalled /\ Pending /\ ~last.fail
    /\ Stored.tag = "bcrypt" /\ ~IsDigestOf(Stored, Candidate)
    /\ verify(Candidate, Persisted)

\* C3: a candidate (the empty string included) evaluated against an empty
\* stored digest is always reported changed, and, the hashing primitive
\* working, HelpFlattenSecret persists a non-empty digest that verifies
\* against the candidate.
C3_EmptyDigestChanged ==
    Stored = EmptyStr =>
        /\ DiffCalled => ~last.ret
        /\ (FlattenCalled /\ Pending /\ ~last.fail) =>
              /\ Persisted # EmptyStr
              /\ verify(Candidate, Persisted)

C3_Witness ==
    /\ FlattenCalled /\ Pending /\ ~last.fail
    /\ Stored = EmptyStr
    /\ Candidate = EmptyStr
    /\ Persisted # EmptyStr

\* C4: a non-empty stored digest that is malformed is treated like an absent
\* one: the field is reported changed, the malformed digest by itself raises
\* no error (an error is returned only if the hashing primitive fails), and a
\* fresh digest of the candidate is persisted.
C4_MalformedDigestAbsorbed ==
    (last.called /\ Stored # EmptyStr /\ Stored.tag # "bcrypt") =>
        /\ DiffCalled => ~last.ret
        /\ ~last.fail => ~last.res.err
        /\ (FlattenCalled /\ Pending /\ ~last.fail) =>
              /\ verify(Candidate, Persisted)
              /\ Persisted # Stored

C4_Witness ==
    /\ FlattenCalled /\ Pending /\ ~last.fail
    /\ Stored = JunkMemo
    /\ verify(Candidate, Persisted)

\* C5: when the hashing call returns an error in HelpFlattenSecret, no digest
\* is persisted: the `<key>_hash` field keeps the value it had before the
\* call.
C5_NoPersistOnError ==
    (FlattenCalled /\ last.called /\ last.res.err) => Persisted = Stored

\* C6: whenever the hashing call returns an error, the diff function returns
\* false (the change is not suppressed), whatever boolean came with the
\* error.
C6_ErrorForcesChange ==
    (DiffCalled /\ last.res.err) => ~last.ret

C6_Witness ==
    /\ DiffCalled
    /\ last.res.err
    /\ ~last.res.isUpdating
    /\ ~last.ret

\* C7: over any sequence of passes, each successful pass of HelpFlattenSecret
\* leaves a digest that verifies against the candidate of that pass; a pass
\* with the same candidate is reported unchanged and leaves the digest
\* identical; a pass with another candidate is reported changed and leaves a
\* digest different from the stored one. Hence in every state each
\* `<key>_hash` field is empty, holds what the state started with, or
\* verifies against the candidate most recently applied with success.
C7_PassesTrackAppliedSecret ==
    /\ \A k \in SecretKeys :
          \/ state[HashField(k)] \in InitMemos
          \/ verify(applied[k], state[HashField(k)])
    /\ (DiffCalled /\ ~last.res.err) =>
          (last.ret <=> IsDigestOf(Stored, Candidate))
    /\ (FlattenCalled /\ Pending /\ ~last.res.err) =>
          /\ verify(Candidate, Persisted)
          /\ applied[last.k] = Candidate
          /\ IsDigestOf(Stored, Candidate) => Persisted = Stored
          /\ ~IsDigestOf(Stored, Candidate) => Persisted # Stored

C7_Witness ==
    /\ FlattenCalled /\ Pending /\ ~last.res.err
    /\ Stored.tag = "bcrypt"
    /\ Stored.body = "a"
    /\ Candidate = Raw("b")
    /\ verify(Candidate, Persisted)

\* C8: what HelpFlattenSecret has written to the `<key>_hash` field is never
\* the cleartext secret: it is empty or a one-way digest.
C8_NeverCleartextInState ==
    (FlattenCalled /\ last.called) =>
        /\ Persisted = EmptyStr \/ Persisted.tag = "bcrypt"
        /\ Persisted \notin SecretValues \ {EmptyStr}

C8_Witness ==
    /\ FlattenCalled /\ last.called
    /\ Candidate # EmptyStr
    /\ Persisted.tag = "bcrypt"

\* C9: no log line emitted by a call contains the plaintext of the secret
\* attribute (its new or its old value).
C9_SecretNeverLogged ==
    \A i \in DOMAIN log : \A j \in DOMAIN log[i].vals :
        \/ log[i].vals[j] = EmptyStr
        \/ log[i].vals[j] \notin {Candidate, before[last.k]}

\* C10: the diff function never modifies the state; HelpFlattenSecret writes
\* no field but `<secretKey>_hash`, and nothing at all when the secret
\* attribute has no pending change; both use the same `<key>_hash` field.
C10_OnlyHashFieldWritten ==
    /\ DiffCalled => state = before /\ last.key = HashField(last.k)
    /\ FlattenCalled =>
          /\ \A key \in Keys \ {HashField(last.k)} : state[key] = before[key]
          /\ ~Pending => state = before
          /\ last.called => last.key = HashField(last.k)

C10_Witness ==
    /\ FlattenCalled /\ Pending
    /\ Persisted # Stored
    /\ \A key \in Keys \ {HashField(last.k)} : state[key] = before[key]

====
